---- MODULE Spec2Model ----
(***************************************************************************)
(* restic-sync: one-way synchronisation of a restic REST repository        *)
(* (source) into another (destination).  The model follows src/main.rs:    *)
(* every HTTP request of run_sync is one atomic step against the two       *)
(* repositories; the servers answer as the REST protocol prescribes or     *)
(* with a failure status.                                                  *)
(***************************************************************************)
EXTENDS Integers, Sequences, FiniteSets, TLC

\* ------------------------------------------------------------------ bounds
\* number of invocations of run_sync (scheduler ticks) that are explored
MaxRuns == 2
\* number of objects (blobs and config files) stored in the two repositories
\* together before the first run
MaxObjs == 2
\* the first PopCats categories of FILE_TYPES may hold objects initially
PopCats == 2
MaxOverlap == 2

\* --------------------------------------------------------------- constants
\* variant: the first two categories are swapped
FILE_TYPES_reordered == <<"keys", "data", "locks", "snapshots", "index">>

FILE_TYPES == <<"data", "keys", "locks", "snapshots", "index">>

Cats == 1..Len(FILE_TYPES)

Runs == 1..MaxRuns

\* ------------------------------------------------------------ content hash
HexChars == <<"0", "1", "2", "3", "4", "5", "6", "7",
              "8", "9", "a", "b", "c", "d", "e", "f">>

\* Sha256 over a byte sequence, scaled down to one byte of digest
RECURSIVE Sha256(_)
Sha256(bytes) ==
    IF bytes = <<>> THEN 7
    ELSE (Sha256(SubSeq(bytes, 1, Len(bytes) - 1)) * 31
            + bytes[Len(bytes)] + 1) % 256

\* format!("{:x}", result): two lowercase hex digits per digest byte
hash_hex(bytes) ==
    HexChars[(Sha256(bytes) \div 16) + 1] \o HexChars[(Sha256(bytes) % 16) + 1]

\* the blob contents and the config contents the repositories may hold
Blobs == {<<1>>, <<2>>, <<1, 2>>}

ConfigBlobs == {<<10>>, <<20>>}

\* object names: the hashes of the two one-byte blobs
Names == {hash_hex(<<1>>), hash_hex(<<2>>)}

\* Option<bytes> as a set with at most one element
NoConfig == {}

\* a repository's objects: per category a map name -> content; built from
\* an assignment of contents to (category, name) cells
Cells == (1..PopCats) \X Names

MkStore(f) ==
    [c \in Cats |->
        [n \in {m \in Names : <<c, m>> \in DOMAIN f} |-> f[<<c, n>>]]]

\* ------------------------------------------------------------------- state
VARIABLES
    src,        \* source repository: category -> (name -> content)
    dst,        \* destination repository: category -> (name -> content)
    srcCfg,     \* source config object (NoConfig or {bytes})
    dstCfg,     \* destination config object
    dstCfg0,    \* the destination config object before the first run
    dst0,       \* the destination repository before the first run
    prune,      \* Args::prune
    cron,       \* Args::cron is Some: scheduled mode
    proc,       \* the process: main's position or its exit
    srcLazy,    \* the source server answers not-found for a category without objects
    dstLazy,    \* the destination server does so
    wire,       \* a request and its answer are separate steps
    inflight,   \* per invocation: requests sent and not answered yet
    run,        \* per invocation of run_sync: position and locals
    reqs,       \* per invocation: the requests sent so far, with their answers
    plans       \* per invocation: the transfer plans computed so far

vars == <<src, dst, srcCfg, dstCfg, dstCfg0, dst0, prune, cron, proc, srcLazy, dstLazy, wire, inflight, run, reqs, plans>>

\* the locals of run_sync and its callees; dropped when a function returns
IdleRun ==
    [pc |-> "idle", cat |-> 0, config_bytes |-> <<>>,
     source_map |-> <<>>, source_status |-> "none", dest_map |-> <<>>,
     to_download |-> <<>>, to_delete |-> <<>>, bytes |-> <<>>, err |-> "none"]

\* bail!(...) / the ? operator: the error propagates out of run_sync
Bail(e) == [IdleRun EXCEPT !.pc = "failed", !.err = e]

\* StatusCode::is_success
is_success(status) == status = "OK"

Ended(r) == run[r].pc \in {"done", "failed"}

\* the invocations that have started and not returned
Running == {q \in Runs : run[q].pc \notin {"idle", "done", "failed", "interrupted"}}

\* one request and its answer, as recorded in reqs
Req(op, repo, cat, name, status, body) ==
    [op |-> op, repo |-> repo, cat |-> cat, name |-> name,
     status |-> status, body |-> body]

\* ------------------------------------------------------- server behaviour
\* POST {base}?create=true: idempotent creation of the repository
InitStatuses == {"OK", "ERROR"}

\* GET {base}config
ConfigGetStatuses(cfg) ==
    IF cfg = NoConfig THEN {"NOT_FOUND", "ERROR"} ELSE {"OK", "ERROR"}

\* POST {base}config: rest-server answers 403 for an existing config
ConfigPostStatuses(cfg) ==
    IF cfg = NoConfig THEN {"OK", "ERROR"} ELSE {"FORBIDDEN", "ERROR"}

\* the bytes of a stored config
ConfigBody(cfg) == IF cfg = NoConfig THEN <<>> ELSE CHOOSE b \in cfg : TRUE

\* GET {base}{type}/ with the v2 Accept header: name and size of every object
Listing(store, c) == [n \in DOMAIN store[c] |-> Len(store[c][n])]

\* a category never materialised answers not-found; a body may fail to parse
ListStatuses(store, c, lazy) ==
    IF DOMAIN store[c] = {} /\ lazy THEN {"NOT_FOUND", "ERROR"}
    ELSE {"OK", "MALFORMED", "ERROR"}

\* GET {base}{type}/{name}
BlobGetStatuses(store, c, n) ==
    IF n \in DOMAIN store[c] THEN {"OK", "ERROR"} ELSE {"NOT_FOUND", "ERROR"}

\* POST {base}{type}/{name}: a create; a server may accept or reject it when
\* the name exists already
BlobPostStatuses(store, c, n) ==
    IF n \in DOMAIN store[c] THEN {"OK", "FORBIDDEN", "ERROR"}
    ELSE {"OK", "ERROR"}

\* DELETE {base}{type}/{name}
BlobDeleteStatuses(store, c, n) ==
    IF n \in DOMAIN store[c] THEN {"OK", "ERROR"} ELSE {"NOT_FOUND", "ERROR"}

\* the store after a successful create of name n with content b
Put(store, c, n, b) ==
    [store EXCEPT ![c] =
        [m \in DOMAIN store[c] \cup {n} |-> IF m = n THEN b ELSE store[c][m]]]

\* the store after a successful delete of name n
Remove(store, c, n) ==
    [store EXCEPT ![c] = [m \in DOMAIN store[c] \ {n} |-> store[c][m]]]

\* ----------------------------------------------------------------- Init
InitState ==
    /\ srcCfg \in {NoConfig} \cup {{b} : b \in ConfigBlobs}
    /\ dstCfg \in {NoConfig} \cup {{b} : b \in ConfigBlobs}
    /\ dstCfg0 = dstCfg
    /\ \E cs \in SUBSET Cells, cd \in SUBSET Cells :
          /\ Cardinality(cs) + Cardinality(cd)
                + Cardinality(srcCfg) + Cardinality(dstCfg) <= MaxObjs
          /\ \E fs \in [cs -> Blobs], fd \in [cd -> Blobs] :
                /\ src = MkStore(fs)
                /\ dst = MkStore(fd)
    /\ dst0 = dst
    /\ prune \in BOOLEAN
    /\ cron \in BOOLEAN
    /\ proc = IF cron THEN "scheduling" ELSE "oneshot"
    /\ srcLazy \in BOOLEAN
    /\ dstLazy \in BOOLEAN
    /\ run = [r \in Runs |-> IdleRun]
    /\ reqs = [r \in Runs |-> <<>>]
    /\ plans = [r \in Runs |-> <<>>]
    /\ inflight = [r \in Runs |-> 0]

\* a request and its answer are one step
Init == InitState /\ wire = FALSE

\* ----------------------------------------------------------------- main
\* variant: the scheduled job lets the error of run_sync end the process
main_after_propagates(p, rec) ==
    IF rec.pc = "failed" THEN "exit_err"
    ELSE IF p = "oneshot" /\ rec.pc = "done" THEN "exit_ok"
    ELSE p

\* what becomes of the process when an invocation of run_sync takes a step:
\* one-shot mode returns the invocation's result (lines 69-72); the scheduled
\* job logs an error and the scheduler goes on (lines 56-58, 66)
main_after(p, rec) ==
    IF p = "oneshot"
    THEN IF rec.pc = "failed" THEN "exit_err"
         ELSE IF rec.pc = "done" THEN "exit_ok"
         ELSE p
    ELSE p

\* ------------------------------------------------------------ requests
\* the positions at which an invocation sends a request
RequestPcs ==
    {"init_dest", "config_get", "config_post", "config_verify",
     "list_source", "list_dest", "download", "upload", "delete"}

\* variant: the request's future is not awaited before the next send
awaited_detached(n) == n < 2

\* send().await: the invocation goes on only when the request it sent has
\* been answered (lines 114, 127, 138, 144, 170, 269, 292, 302)
awaited(n) == n = 0

\* the answer to the request in flight arrives
Answered(r) == wire => inflight[r] = 1

\* the invocation sends the request of its position
Send(r) ==
    /\ wire
    /\ run[r].pc \in RequestPcs
    /\ awaited(inflight[r])
    /\ inflight' = [inflight EXCEPT ![r] = @ + 1]
    /\ UNCHANGED <<src, dst, srcCfg, dstCfg, dstCfg0, dst0, prune, cron, proc, srcLazy, dstLazy, wire, run, reqs, plans>>

\* ------------------------------------------------------------- run_sync
\* main / the scheduled job calls run_sync; an invocation starts once the
\* previous one has returned.  The caller has logged and dropped the previous
\* invocation's error (lines 56-58); its request log is dropped with it.
StartRun(r) ==
    /\ run[r].pc = "idle"
    /\ proc = "scheduling" \/ (proc = "oneshot" /\ r = 1)
    /\ r > 1 => Ended(r - 1)
    /\ Running = {}
    /\ run' = [q \in Runs |->
                IF q = r THEN [IdleRun EXCEPT !.pc = "init_dest"]
                ELSE [run[q] EXCEPT !.err = "none"]]
    /\ reqs' = [q \in Runs |-> <<>>]
    /\ plans' = [q \in Runs |-> <<>>]
    /\ UNCHANGED <<src, dst, srcCfg, dstCfg, dstCfg0, dst0, prune, cron, proc, srcLazy, dstLazy, wire, inflight>>

\* the scheduler fires while the previous invocation is still running: the
\* job closure is called again (lines 52-60) and nothing excludes the two
\* invocations from each other.  The running ones keep their locals and
\* logs; the results of the ones that returned have been dropped.
StartOverlapped(r) ==
    /\ run[r].pc = "idle"
    /\ proc = "scheduling"
    /\ r > 1
    /\ run[r - 1].pc # "idle"
    /\ Running # {}
    /\ Cardinality(Running) < MaxOverlap
    /\ run' = [q \in Runs |->
                IF q = r THEN [IdleRun EXCEPT !.pc = "init_dest"]
                ELSE [run[q] EXCEPT !.err = "none"]]
    /\ reqs' = [q \in Runs |-> IF q \in Running THEN reqs[q] ELSE <<>>]
    /\ plans' = [q \in Runs |-> IF q \in Running THEN plans[q] ELSE <<>>]
    /\ UNCHANGED <<src, dst, srcCfg, dstCfg, dstCfg0, dst0, prune, cron, proc, srcLazy, dstLazy, wire, inflight>>

\* init_dest: POST ?create=true
init_dest(r) ==
    /\ run[r].pc = "init_dest"
    /\ Answered(r)
    /\ \E status \in InitStatuses :
          /\ reqs' = [reqs EXCEPT
                ![r] = Append(@, Req("create", "dest", 0, "", status, <<>>))]
          /\ run' = [run EXCEPT ![r] =
                IF is_success(status) THEN [@ EXCEPT !.pc = "config_get"]
                ELSE Bail("InitFailed")]
    /\ inflight' = [inflight EXCEPT ![r] = 0]
    /\ proc' = main_after(proc, run'[r])
    /\ UNCHANGED <<src, dst, srcCfg, dstCfg, dstCfg0, dst0, prune, cron, srcLazy, dstLazy, wire, plans>>

\* run_sync line 95: sync_type is entered for category c with fresh locals
EnterType(c) == [IdleRun EXCEPT !.pc = "list_source", !.cat = c]

\* ---------------------------------------------------------- sync_config
\* variant: a missing source config is an error like any other status
config_fetch_outcome_strict(status) ==
    IF ~is_success(status) THEN "fail" ELSE "fetched"

\* what sync_config does with the answer to the source GET (lines 128-136)
config_fetch_outcome(status) ==
    IF ~is_success(status)
    THEN IF status = "NOT_FOUND" THEN "skip" ELSE "fail"
    ELSE "fetched"

\* variant: a 403 on the POST is taken for a successful write
config_post_outcome_forbidden_ok(status) ==
    IF ~is_success(status)
    THEN IF status = "FORBIDDEN" THEN "written" ELSE "fail"
    ELSE "written"

\* what it does with the answer to the destination POST (lines 139-159)
config_post_outcome(status) ==
    IF ~is_success(status)
    THEN IF status = "FORBIDDEN" THEN "verify" ELSE "fail"
    ELSE "written"

\* variant: an unreadable destination config is taken for a matching one
config_verify_outcome_unread_ok(status, dest_bytes, config_bytes) ==
    IF is_success(status)
    THEN IF dest_bytes # config_bytes THEN "mismatch" ELSE "match"
    ELSE "match"

\* variant: the destination bytes are not compared with the source bytes
config_verify_outcome_no_compare(status, dest_bytes, config_bytes) ==
    IF is_success(status) THEN "match" ELSE "read_failed"

\* what it does with the answer to the destination GET (lines 145-154)
config_verify_outcome(status, dest_bytes, config_bytes) ==
    IF is_success(status)
    THEN IF dest_bytes # config_bytes THEN "mismatch" ELSE "match"
    ELSE "read_failed"

\* GET source config (lines 127-136)
sync_config_fetch(r) ==
    /\ run[r].pc = "config_get"
    /\ Answered(r)
    /\ \E status \in ConfigGetStatuses(srcCfg) :
          /\ reqs' = [reqs EXCEPT ![r] = Append(@,
                Req("get_config", "source", 0, "", status,
                    IF is_success(status) THEN ConfigBody(srcCfg) ELSE <<>>))]
          /\ run' = [run EXCEPT ![r] =
                CASE config_fetch_outcome(status) = "skip" -> EnterType(1)
                  [] config_fetch_outcome(status) = "fail" ->
                        Bail("SourceConfigFetch")
                  [] OTHER -> [@ EXCEPT !.pc = "config_post",
                                        !.config_bytes = ConfigBody(srcCfg)]]
    /\ inflight' = [inflight EXCEPT ![r] = 0]
    /\ proc' = main_after(proc, run'[r])
    /\ UNCHANGED <<src, dst, srcCfg, dstCfg, dstCfg0, dst0, prune, cron, srcLazy, dstLazy, wire, plans>>

\* POST the source bytes to the destination config (lines 138-140, 156-159)
sync_config_post(r) ==
    /\ run[r].pc = "config_post"
    /\ Answered(r)
    /\ \E status \in ConfigPostStatuses(dstCfg) :
          /\ reqs' = [reqs EXCEPT ![r] = Append(@,
                Req("post_config", "dest", 0, "", status,
                    run[r].config_bytes))]
          /\ dstCfg' = IF is_success(status) THEN {run[r].config_bytes}
                       ELSE dstCfg
          /\ run' = [run EXCEPT ![r] =
                CASE config_post_outcome(status) = "verify" ->
                        [@ EXCEPT !.pc = "config_verify"]
                  [] config_post_outcome(status) = "fail" -> Bail("ConfigSave")
                  [] OTHER -> EnterType(1)]
    /\ inflight' = [inflight EXCEPT ![r] = 0]
    /\ proc' = main_after(proc, run'[r])
    /\ UNCHANGED <<src, dst, srcCfg, dstCfg0, dst0, prune, cron, srcLazy, dstLazy, wire, plans>>

\* after a 403: GET the destination config and compare (lines 144-154)
sync_config_verify(r) ==
    /\ run[r].pc = "config_verify"
    /\ Answered(r)
    /\ \E status \in ConfigGetStatuses(dstCfg) :
          /\ reqs' = [reqs EXCEPT ![r] = Append(@,
                Req("get_config", "dest", 0, "", status,
                    IF is_success(status) THEN ConfigBody(dstCfg) ELSE <<>>))]
          /\ run' = [run EXCEPT ![r] =
                LET out == config_verify_outcome(status, ConfigBody(dstCfg),
                                                 run[r].config_bytes)
                IN CASE out = "mismatch" -> Bail("ConfigMismatch")
                     [] out = "read_failed" -> Bail("DestConfigRead")
                     [] OTHER -> EnterType(1)]
    /\ inflight' = [inflight EXCEPT ![r] = 0]
    /\ proc' = main_after(proc, run'[r])
    /\ UNCHANGED <<src, dst, srcCfg, dstCfg, dstCfg0, dst0, prune, cron, srcLazy, dstLazy, wire, plans>>

\* ----------------------------------------------------------- list_files
\* variant: not-found is reported as an error like any other status
list_files_not_found_fails(store, c, status) ==
    IF ~is_success(status) /\ status # "MALFORMED"
    THEN [ok |-> FALSE, items |-> <<>>, err |-> "ListFailed"]
    ELSE IF status = "MALFORMED"
         THEN [ok |-> FALSE, items |-> <<>>, err |-> "ListParse"]
         ELSE [ok |-> TRUE, items |-> Listing(store, c), err |-> "none"]

\* the Result of list_files for a response (lines 172-188)
list_files(store, c, status) ==
    IF ~is_success(status) /\ status # "MALFORMED"
    THEN IF status = "NOT_FOUND"
         THEN [ok |-> TRUE, items |-> <<>>, err |-> "none"]
         ELSE [ok |-> FALSE, items |-> <<>>, err |-> "ListFailed"]
    ELSE IF status = "MALFORMED"
         THEN [ok |-> FALSE, items |-> <<>>, err |-> "ListParse"]
         ELSE [ok |-> TRUE, items |-> Listing(store, c), err |-> "none"]

\* ------------------------------------------------------------ sync_type
\* the orders in which a HashMap may iterate over the keys in S
Orders(S) ==
    {s \in [1..Cardinality(S) -> S] :
        \A i, j \in 1..Cardinality(S) : i # j => s[i] # s[j]}

\* variant: every source name is pushed
is_missing_always(name, size, dest_map) == TRUE

\* variant: the declared sizes are not compared
is_missing_ignores_size(name, size, dest_map) == name \notin DOMAIN dest_map

\* variant: the size comparison is inverted
is_missing_same_size(name, size, dest_map) ==
    IF name \in DOMAIN dest_map THEN size = dest_map[name] ELSE TRUE

\* the test of lines 215-221: name is pushed to to_download
is_missing(name, size, dest_map) ==
    IF name \in DOMAIN dest_map THEN size # dest_map[name] ELSE TRUE

\* "Identify missing" (lines 213-222), iterating source_map in order
to_download(source_map, dest_map, order) ==
    SelectSeq(order,
        LAMBDA name : is_missing(name, source_map[name], dest_map))

\* variant: a name whose declared size differs is pushed as well
is_extra_or_resized(name, source_map, dest_map) ==
    \/ name \notin DOMAIN source_map
    \/ source_map[name] # dest_map[name]

\* variant: every destination name is pushed
is_extra_always(name, source_map, dest_map) == TRUE

\* the test of line 228: name is pushed to to_delete
is_extra(name, source_map, dest_map) == name \notin DOMAIN source_map

\* "Identify extra" (lines 225-232), iterating dest_map in order
to_delete(source_map, dest_map, order, pr) ==
    IF pr
    THEN SelectSeq(order, LAMBDA name : is_extra(name, source_map, dest_map))
    ELSE <<>>

\* variant: the delete loop is left out
Proceed_without_delete(rec, pr) ==
    IF rec.to_download # <<>> THEN [rec EXCEPT !.pc = "download"]
    ELSE IF rec.cat < Len(FILE_TYPES) THEN EnterType(rec.cat + 1)
    ELSE [IdleRun EXCEPT !.pc = "done"]

\* the two loops of lines 242-253 and the return to run_sync's loop
Proceed(rec, pr) ==
    IF rec.to_download # <<>> THEN [rec EXCEPT !.pc = "download"]
    ELSE IF pr /\ rec.to_delete # <<>> THEN [rec EXCEPT !.pc = "delete"]
    ELSE IF rec.cat < Len(FILE_TYPES) THEN EnterType(rec.cat + 1)
    ELSE [IdleRun EXCEPT !.pc = "done"]

\* list_files(source) (line 200)
sync_type_list_source(r) ==
    /\ run[r].pc = "list_source"
    /\ Answered(r)
    /\ \E status \in ListStatuses(src, run[r].cat, srcLazy) :
          LET res == list_files(src, run[r].cat, status) IN
          /\ reqs' = [reqs EXCEPT ![r] = Append(@,
                Req("list", "source", run[r].cat, "", status, <<>>))]
          /\ run' = [run EXCEPT ![r] =
                IF res.ok
                THEN [@ EXCEPT !.pc = "list_dest",
                               !.source_map = res.items,
                               !.source_status = status]
                ELSE Bail(res.err)]
    /\ inflight' = [inflight EXCEPT ![r] = 0]
    /\ proc' = main_after(proc, run'[r])
    /\ UNCHANGED <<src, dst, srcCfg, dstCfg, dstCfg0, dst0, prune, cron, srcLazy, dstLazy, wire, plans>>

\* list_files(dest) and the plan (lines 201-239)
sync_type_list_dest(r) ==
    /\ run[r].pc = "list_dest"
    /\ Answered(r)
    /\ \E status \in ListStatuses(dst, run[r].cat, dstLazy) :
          LET res == list_files(dst, run[r].cat, status) IN
          /\ reqs' = [reqs EXCEPT ![r] = Append(@,
                Req("list", "dest", run[r].cat, "", status, <<>>))]
          /\ IF res.ok
             THEN \E so \in Orders(DOMAIN run[r].source_map),
                     do \in Orders(DOMAIN res.items) :
                    LET td == to_download(run[r].source_map, res.items, so)
                        tx == to_delete(run[r].source_map, res.items, do, prune)
                    IN
                    /\ run' = [run EXCEPT ![r] =
                          Proceed([@ EXCEPT !.dest_map = res.items,
                                            !.to_download = td,
                                            !.to_delete = tx], prune)]
                    /\ plans' = [plans EXCEPT ![r] = Append(@,
                          [cat |-> run[r].cat,
                           source_map |-> run[r].source_map,
                           source_status |-> run[r].source_status,
                           dest_map |-> res.items,
                           dest_status |-> status,
                           to_download |-> td,
                           to_delete |-> tx])]
             ELSE /\ run' = [run EXCEPT ![r] = Bail(res.err)]
                  /\ UNCHANGED plans
    /\ inflight' = [inflight EXCEPT ![r] = 0]
    /\ proc' = main_after(proc, run'[r])
    /\ UNCHANGED <<src, dst, srcCfg, dstCfg, dstCfg0, dst0, prune, cron, srcLazy, dstLazy, wire>>

\* ------------------------------------------------------------ sync_file
\* variant: the hash is not compared with the name
blob_verified_unchecked(bytes, name) == TRUE

\* variant: only the presence of a body is checked
blob_verified_nonempty(bytes, name) == bytes # <<>>

\* the comparison of line 282
blob_verified(bytes, name) == hash_hex(bytes) = name

\* variant: a failed upload does not stop the loop
after_upload_ignores_failure(rec, status, pr) ==
    Proceed([rec EXCEPT !.to_download = Tail(@), !.bytes = <<>>], pr)

\* variant: the transfer is tried once more after a failed upload
after_upload_retries_once(rec, status, pr) ==
    IF is_success(status)
    THEN Proceed([rec EXCEPT !.to_download = Tail(@), !.bytes = <<>>, !.err = "none"], pr)
    ELSE IF rec.err = "none"
         THEN [rec EXCEPT !.pc = "download", !.bytes = <<>>, !.err = "retry"]
         ELSE Bail("UploadFailed")

\* sync_file's result for the answer to the upload, and the caller's loop
\* (lines 293-297, 242-255)
after_upload(rec, status, pr) ==
    IF ~is_success(status) THEN Bail("UploadFailed")
    ELSE Proceed([rec EXCEPT !.to_download = Tail(@), !.bytes = <<>>], pr)

\* variant: a failed delete does not stop the loop
after_delete_ignores_failure(rec, status, pr) ==
    Proceed([rec EXCEPT !.to_delete = Tail(@)], pr)

\* delete_file's result for the answer to the delete, and the caller's loop
\* (lines 303-306, 248-255)
after_delete(rec, status, pr) ==
    IF ~is_success(status) THEN Bail("DeleteFailed")
    ELSE Proceed([rec EXCEPT !.to_delete = Tail(@)], pr)

\* GET the blob from the source and verify its hash (lines 269-289)
sync_file_fetch(r) ==
    /\ run[r].pc = "download"
    /\ Answered(r)
    /\ LET c == run[r].cat
           name == Head(run[r].to_download)
       IN
       \E status \in BlobGetStatuses(src, c, name) :
          LET bytes == IF is_success(status) THEN src[c][name] ELSE <<>> IN
          /\ reqs' = [reqs EXCEPT ![r] = Append(@,
                Req("get", "source", c, name, status, bytes))]
          /\ run' = [run EXCEPT ![r] =
                IF ~is_success(status) THEN Bail("DownloadFailed")
                ELSE IF ~blob_verified(bytes, name)
                     THEN Bail("BlobVerification")
                ELSE [@ EXCEPT !.pc = "upload", !.bytes = bytes]]
    /\ inflight' = [inflight EXCEPT ![r] = 0]
    /\ proc' = main_after(proc, run'[r])
    /\ UNCHANGED <<src, dst, srcCfg, dstCfg, dstCfg0, dst0, prune, cron, srcLazy, dstLazy, wire, plans>>

\* variant: the upload is sent to the URL the blob was fetched from
upload_repo_source == "source"

\* the repository dest_url points to (line 266)
upload_repo == "dest"

\* variant: the delete is sent to the source repository
delete_repo_source == "source"

\* the repository delete_file is called with (line 251)
delete_repo == "dest"

\* POST the verified blob to the destination (lines 292-297)
sync_file_upload(r) ==
    /\ run[r].pc = "upload"
    /\ Answered(r)
    /\ LET c == run[r].cat
           name == Head(run[r].to_download)
           store == IF upload_repo = "source" THEN src ELSE dst
       IN
       \E status \in BlobPostStatuses(store, c, name) :
          /\ reqs' = [reqs EXCEPT ![r] = Append(@,
                Req("post", upload_repo, c, name, status, run[r].bytes))]
          /\ dst' = IF is_success(status) /\ upload_repo = "dest"
                    THEN Put(dst, c, name, run[r].bytes) ELSE dst
          /\ src' = IF is_success(status) /\ upload_repo = "source"
                    THEN Put(src, c, name, run[r].bytes) ELSE src
          /\ run' = [run EXCEPT ![r] = after_upload(@, status, prune)]
    /\ inflight' = [inflight EXCEPT ![r] = 0]
    /\ proc' = main_after(proc, run'[r])
    /\ UNCHANGED <<srcCfg, dstCfg, dstCfg0, dst0, prune, cron, srcLazy, dstLazy, wire, plans>>

\* ---------------------------------------------------------- delete_file
\* DELETE the extra blob at the destination (lines 300-307)
delete_file(r) ==
    /\ run[r].pc = "delete"
    /\ Answered(r)
    /\ LET c == run[r].cat
           name == Head(run[r].to_delete)
       IN
       \E status \in BlobDeleteStatuses(
                        IF delete_repo = "source" THEN src ELSE dst, c, name) :
          /\ reqs' = [reqs EXCEPT ![r] = Append(@,
                Req("delete", delete_repo, c, name, status, <<>>))]
          /\ dst' = IF is_success(status) /\ delete_repo = "dest"
                    THEN Remove(dst, c, name) ELSE dst
          /\ src' = IF is_success(status) /\ delete_repo = "source"
                    THEN Remove(src, c, name) ELSE src
          /\ run' = [run EXCEPT ![r] = after_delete(@, status, prune)]
    /\ inflight' = [inflight EXCEPT ![r] = 0]
    /\ proc' = main_after(proc, run'[r])
    /\ UNCHANGED <<srcCfg, dstCfg, dstCfg0, dst0, prune, cron, srcLazy, dstLazy, wire, plans>>

\* ------------------------------------------------------------- signal
\* an external termination signal: ctrl_c() completes in scheduled mode and
\* main returns Ok (lines 66-72); in one-shot mode the signal kills the
\* process.  Invocations in progress are dropped with their locals.
Signal ==
    /\ proc \in {"scheduling", "oneshot"}
    /\ proc' = IF proc = "scheduling" THEN "shutdown" ELSE "killed"
    /\ run' = [q \in Runs |->
                IF run[q].pc \in {"idle", "done", "failed"}
                THEN [run[q] EXCEPT !.err = "none"]
                ELSE [IdleRun EXCEPT !.pc = "interrupted"]]
    /\ reqs' = [q \in Runs |-> <<>>]
    /\ plans' = [q \in Runs |-> <<>>]
    /\ inflight' = [q \in Runs |-> 0]
    /\ UNCHANGED <<src, dst, srcCfg, dstCfg, dstCfg0, dst0, prune, cron, srcLazy, dstLazy, wire>>

\* ------------------------------------------------------- specification
Next ==
    \/ Signal
    \/ \E r \in Runs :
        \/ StartRun(r)
        \/ init_dest(r)
        \/ sync_config_fetch(r)
        \/ sync_config_post(r)
        \/ sync_config_verify(r)
        \/ sync_type_list_source(r)
        \/ sync_type_list_dest(r)
        \/ sync_file_fetch(r)
        \/ sync_file_upload(r)
        \/ delete_file(r)

Spec == Init /\ [][Next]_vars

\* the answer to the request invocation r is waiting for arrives
Step(r) ==
    \/ init_dest(r)
    \/ sync_config_fetch(r)
    \/ sync_config_post(r)
    \/ sync_config_verify(r)
    \/ sync_type_list_source(r)
    \/ sync_type_list_dest(r)
    \/ sync_file_fetch(r)
    \/ sync_file_upload(r)
    \/ delete_file(r)

\* every request eventually returns a response: each .await of a request
\* completes, with a status or with an error
\* one-shot and scheduled mode with prune, so that both loops of sync_type
\* run, and servers that answer a list of an empty category with an empty
\* array
InitFair == Init /\ prune /\ ~srcLazy /\ ~dstLazy

FairSpec == InitFair /\ [][Next]_vars /\ \A r \in Runs : WF_vars(Step(r))

\* the same program with every request and its answer as separate steps
InitWire == InitState /\ wire = TRUE

NextWire ==
    \/ Signal
    \/ \E r \in Runs :
        \/ Send(r)
        \/ StartRun(r)
        \/ init_dest(r)
        \/ sync_config_fetch(r)
        \/ sync_config_post(r)
        \/ sync_config_verify(r)
        \/ sync_type_list_source(r)
        \/ sync_type_list_dest(r)
        \/ sync_file_fetch(r)
        \/ sync_file_upload(r)
        \/ delete_file(r)

SpecWire == InitWire /\ [][NextWire]_vars

\* scheduled mode with prune, the cadence shorter than a run's duration, and
\* servers that answer a list of an empty category with an empty array
InitOverlap == Init /\ cron /\ prune /\ ~srcLazy /\ ~dstLazy

NextOverlap ==
    \/ Signal
    \/ \E r \in Runs :
        \/ StartRun(r)
        \/ StartOverlapped(r)
        \/ init_dest(r)
        \/ sync_config_fetch(r)
        \/ sync_config_post(r)
        \/ sync_config_verify(r)
        \/ sync_type_list_source(r)
        \/ sync_type_list_dest(r)
        \/ sync_file_fetch(r)
        \/ sync_file_upload(r)
        \/ delete_file(r)

SpecOverlap == InitOverlap /\ [][NextOverlap]_vars

TypeOK ==
    /\ \A r \in Runs : run[r].pc \in
          {"idle", "init_dest", "config_get", "config_post", "config_verify",
           "list_source", "list_dest", "download", "upload", "delete",
           "done", "failed", "interrupted"}
    /\ \A c \in Cats : DOMAIN src[c] \subseteq Names /\ DOMAIN dst[c] \subseteq Names
    /\ wire \in BOOLEAN
    /\ inflight \in [Runs -> 0..2]

\* ================================================================ claims
\* the invocation is past sync_config: in sync_type or returned with Ok
PastConfig(r) ==
    run[r].pc \in {"list_source", "list_dest", "download", "upload",
                   "delete", "done"}

\* the invocation has returned and its caller has not dropped the result yet
Reported(r) == Ended(r) /\ reqs[r] # <<>>

\* every request of the invocation was answered as the protocol prescribes
NoFault(r) ==
    \A i \in DOMAIN reqs[r] : reqs[r][i].status \notin {"ERROR", "MALFORMED"}

\* C1: when the destination holds a config C1 and the source a different
\* config C2, no invocation gets past sync_config or returns Ok, the
\* destination config stays C1, and an invocation whose requests were all
\* answered per protocol fails with the configuration-mismatch error.
C1_MismatchAborts ==
    (srcCfg # NoConfig /\ dstCfg0 # NoConfig /\ srcCfg # dstCfg0) =>
        /\ dstCfg = dstCfg0
        /\ \A r \in Runs :
              /\ ~PastConfig(r)
              /\ (Reported(r) /\ NoFault(r)) =>
                    (run[r].pc = "failed" /\ run[r].err = "ConfigMismatch")

C1_Witness ==
    /\ srcCfg # NoConfig /\ dstCfg0 # NoConfig /\ srcCfg # dstCfg0
    /\ run[1].pc = "failed" /\ run[1].err = "ConfigMismatch"
    /\ Len(reqs[1]) = 4
    /\ reqs[1][3].op = "post_config" /\ reqs[1][3].status = "FORBIDDEN"

\* C2 as stated: once an invocation is past sync_config, the destination
\* config equals the source config (same bytes, or absent on both sides).
C2_Original ==
    \A r \in Runs : PastConfig(r) => dstCfg = srcCfg

\* C2 amended: once an invocation is past sync_config, either the source
\* has no config and the destination config is what it was before the run,
\* or the destination config equals the source config.
C2_ConfigInvariant ==
    \A r \in Runs :
        PastConfig(r) =>
            \/ srcCfg = NoConfig /\ dstCfg = dstCfg0
            \/ srcCfg # NoConfig /\ dstCfg = srcCfg

C2_Witness ==
    /\ run[1].pc = "list_source" /\ run[1].cat = 1
    /\ srcCfg # NoConfig /\ dstCfg0 = NoConfig /\ dstCfg = srcCfg

\* C3: when the source holds a config C and sync_config has returned Ok,
\* the destination config is C: it was absent and the create was accepted,
\* or it was C already, the create was rejected with 403 and the
\* destination's bytes compared equal.
C3_ConfigSynced ==
    \A r \in Runs :
        (srcCfg # NoConfig /\ PastConfig(r)) =>
            /\ dstCfg = srcCfg
            /\ dstCfg0 \in {NoConfig, srcCfg}
            /\ reqs[r] # <<>> =>
                  /\ reqs[r][2].body = ConfigBody(srcCfg)
                  /\ reqs[r][3].op = "post_config"
                  /\ reqs[r][3].body = ConfigBody(srcCfg)
                  /\ \/ reqs[r][3].status = "OK"
                     \/ /\ reqs[r][3].status = "FORBIDDEN"
                        /\ reqs[r][4].op = "get_config"
                        /\ reqs[r][4].repo = "dest"
                        /\ reqs[r][4].status = "OK"
                        /\ reqs[r][4].body = ConfigBody(srcCfg)

C3_Witness ==
    /\ srcCfg # NoConfig /\ dstCfg0 = srcCfg
    /\ run[1].pc = "list_source" /\ run[1].cat = 1
    /\ reqs[1][3].status = "FORBIDDEN"
    /\ dstCfg = srcCfg

Range(seq) == {seq[i] : i \in DOMAIN seq}

\* a fetch that returned bytes whose hash is not the object's name
BadFetch(q) == q.op = "get" /\ q.status = "OK" /\ hash_hex(q.body) # q.name

\* an upload that the destination accepted
GoodUpload(q) == q.op = "post" /\ q.status = "OK"

\* an object transfer that failed: fetch, verification or upload
FailedTransfer(q) ==
    \/ q.op = "get" /\ q.status # "OK"
    \/ BadFetch(q)
    \/ q.op = "post" /\ q.status # "OK"

\* C4: when a fetch returns bytes whose hex hash differs from the object's
\* name, the invocation fails with the blob-verification error, the fetch is
\* its last request (no upload follows), the destination does not hold
\* those bytes under that name, and every upload carries bytes that hash to
\* the name they are uploaded under.
C4_HashIntegrity ==
    \A r \in Runs : \A i \in DOMAIN reqs[r] :
        LET q == reqs[r][i] IN
        /\ BadFetch(q) =>
              /\ i = Len(reqs[r])
              /\ run[r].pc = "failed" /\ run[r].err = "BlobVerification"
              /\ ~(q.name \in DOMAIN dst[q.cat] /\ dst[q.cat][q.name] = q.body)
        /\ q.op = "post" => hash_hex(q.body) = q.name

C4_Witness ==
    /\ run[1].pc = "failed" /\ run[1].err = "BlobVerification"
    /\ BadFetch(reqs[1][Len(reqs[1])])
    /\ dst = dst0

\* C5: after an invocation that returned Ok every name the source lists in
\* a category is present at the destination, and with prune the destination
\* holds exactly the source's names in every category.
C5_SupersetOrMirror ==
    \A r \in Runs :
        run[r].pc = "done" =>
            \A c \in Cats :
                /\ DOMAIN src[c] \subseteq DOMAIN dst[c]
                /\ prune => DOMAIN dst[c] = DOMAIN src[c]

C5_Witness ==
    /\ run[1].pc = "done" /\ prune
    /\ \E c \in Cats : ~(DOMAIN src[c] \subseteq DOMAIN dst0[c])
    /\ \E c \in Cats : ~(DOMAIN dst0[c] \subseteq DOMAIN src[c])
    /\ \A c \in Cats : DOMAIN dst[c] = DOMAIN src[c]

\* C6: an invocation that follows one that returned Ok plans no transfer
\* and no deletion in any category and sends no fetch, upload or delete.
C6_Idempotent ==
    \A r \in Runs :
        (r > 1 /\ run[r - 1].pc = "done") =>
            /\ \A k \in DOMAIN plans[r] :
                  plans[r][k].to_download = <<>> /\ plans[r][k].to_delete = <<>>
            /\ \A i \in DOMAIN reqs[r] :
                  reqs[r][i].op \notin {"get", "post", "delete"}

C6_Witness ==
    /\ run[1].pc = "done" /\ run[2].pc = "done"
    /\ dst # dst0
    /\ Len(plans[2]) = Len(FILE_TYPES)
    /\ \E c \in Cats : DOMAIN src[c] # {}

\* C7: without prune, the planned to_download holds exactly the source names
\* that are absent from the destination snapshot or have another declared
\* size there, each once, and to_delete is empty.
C7_DiffCorrect ==
    ~prune =>
        \A r \in Runs : \A k \in DOMAIN plans[r] :
            LET p == plans[r][k]
                S == p.source_map
                D == p.dest_map
            IN
            /\ Range(p.to_download) =
                  {n \in DOMAIN S : n \notin DOMAIN D \/ S[n] # D[n]}
            /\ Len(p.to_download) = Cardinality(Range(p.to_download))
            /\ p.to_delete = <<>>

C7_Witness ==
    /\ ~prune
    /\ \E k \in DOMAIN plans[1] :
          LET p == plans[1][k] IN
          \E n \in DOMAIN p.source_map \cap DOMAIN p.dest_map :
              /\ p.source_map[n] # p.dest_map[n]
              /\ p.to_download = <<n>>

\* C8: with prune, the planned to_delete holds exactly the destination names
\* absent from the source snapshot, each once; a name in both snapshots is
\* not in it whatever its sizes, and to_delete and to_download are disjoint.
C8_PruneCorrect ==
    prune =>
        \A r \in Runs : \A k \in DOMAIN plans[r] :
            LET p == plans[r][k]
                S == p.source_map
                D == p.dest_map
            IN
            /\ Range(p.to_delete) = {n \in DOMAIN D : n \notin DOMAIN S}
            /\ Len(p.to_delete) = Cardinality(Range(p.to_delete))
            /\ \A n \in DOMAIN S \cap DOMAIN D : n \notin Range(p.to_delete)
            /\ Range(p.to_delete) \cap Range(p.to_download) = {}

C8_Witness ==
    /\ prune
    /\ \E k \in DOMAIN plans[1] :
          LET p == plans[1][k] IN
          \E n \in DOMAIN p.source_map \cap DOMAIN p.dest_map :
              /\ p.source_map[n] # p.dest_map[n]
              /\ n \in Range(p.to_download)
              /\ n \notin Range(p.to_delete)

\* C9: a failed object transfer is the last request of its invocation, which
\* has failed (no further transfer, no later category), and the bytes of
\* every upload accepted earlier in the invocation are at the destination.
C9_SequentialAbort ==
    \A r \in Runs : \A i \in DOMAIN reqs[r] :
        FailedTransfer(reqs[r][i]) =>
            /\ i = Len(reqs[r])
            /\ run[r].pc = "failed"
            /\ \A j \in 1..(i - 1) :
                  LET q == reqs[r][j] IN
                  GoodUpload(q) =>
                      /\ q.name \in DOMAIN dst[q.cat]
                      /\ dst[q.cat][q.name] = q.body

C9_Witness ==
    /\ run[1].pc = "failed"
    /\ \E i \in DOMAIN reqs[1] :
          /\ FailedTransfer(reqs[1][i])
          /\ \E j \in 1..(i - 1) :
                /\ GoodUpload(reqs[1][j])
                /\ reqs[1][j].cat = reqs[1][i].cat
                /\ reqs[1][j].cat < Len(FILE_TYPES)
                /\ reqs[1][j].name \notin DOMAIN dst0[reqs[1][j].cat]
                /\ reqs[1][j].name \in DOMAIN dst[reqs[1][j].cat]

\* the listing of a category that was answered with not-found
NotFoundList(q, repo) ==
    q.op = "list" /\ q.repo = repo /\ q.status = "NOT_FOUND"

\* C10: a listing answered with not-found does not fail the invocation; when
\* both listings of a category are answered so, both snapshots and both
\* plans are empty, no fetch, upload or delete is sent for the category and
\* sync_type returns Ok (the next category is entered, or the run is done).
C10_EmptyCategory ==
    \A r \in Runs : \A i \in DOMAIN reqs[r] :
        LET q == reqs[r][i] IN
        /\ (q.op = "list" /\ q.status = "NOT_FOUND" /\ i = Len(reqs[r])) =>
              run[r].pc # "failed"
        /\ (i > 1 /\ NotFoundList(q, "dest")
                  /\ NotFoundList(reqs[r][i - 1], "source")) =>
              /\ \E k \in DOMAIN plans[r] :
                    /\ plans[r][k].cat = q.cat
                    /\ plans[r][k].source_map = <<>>
                    /\ plans[r][k].dest_map = <<>>
                    /\ plans[r][k].to_download = <<>>
                    /\ plans[r][k].to_delete = <<>>
              /\ \A j \in DOMAIN reqs[r] :
                    reqs[r][j].cat = q.cat =>
                        reqs[r][j].op \notin {"get", "post", "delete"}
              /\ i = Len(reqs[r]) =>
                    \/ run[r].pc = "done" /\ q.cat = Len(FILE_TYPES)
                    \/ run[r].pc = "list_source" /\ run[r].cat = q.cat + 1

C10_Witness ==
    /\ run[1].pc = "done"
    /\ \E i \in 2..Len(reqs[1]) :
          /\ NotFoundList(reqs[1][i], "dest")
          /\ NotFoundList(reqs[1][i - 1], "source")
    /\ \E i \in DOMAIN reqs[1] : GoodUpload(reqs[1][i])

\* every object of the store has content whose hash is its name
AllValid(store) ==
    \A c \in Cats : \A n \in DOMAIN store[c] : hash_hex(store[c][n]) = n

\* C11: when every object at the destination hashed to its name before the
\* first run, it does so in every reachable state, in particular in every
\* state in which a signal has stopped a run between two of its requests.
C11_NeverCorrupt == AllValid(dst0) => AllValid(dst)

C11_Witness ==
    /\ AllValid(dst0)
    /\ proc \in {"shutdown", "killed"}
    /\ run[1].pc = "interrupted"
    /\ dst # dst0
    /\ \E c \in Cats : ~(DOMAIN src[c] \subseteq DOMAIN dst[c])

\* C12: in scheduled mode the process ends only by the termination signal;
\* after a failed invocation it is still scheduling and the next invocation
\* of run_sync can start.  In one-shot mode there is one invocation, and the
\* process exits with failure exactly when that invocation failed.
C12_SchedulerSurvives ==
    /\ cron =>
          /\ proc \in {"scheduling", "shutdown"}
          /\ \A r \in Runs :
                (/\ run[r].pc = "failed"
                 /\ proc = "scheduling"
                 /\ r < MaxRuns
                 /\ run[r + 1].pc = "idle") => ENABLED StartRun(r + 1)
    /\ ~cron =>
          /\ proc = "exit_err" <=> run[1].pc = "failed"
          /\ proc = "exit_ok" <=> run[1].pc = "done"
          /\ \A r \in Runs : r > 1 => run[r].pc = "idle"

C12_Witness ==
    /\ cron /\ proc = "scheduling"
    /\ run[1].pc = "failed"
    /\ run[2].pc = "config_get"

\* the steps of the orchestrator, in order
StepNames ==
    <<"Init", "ConfigSync", "data", "keys", "locks", "snapshots", "index">>

\* the step a request belongs to, as an index of StepNames
StepOf(q) ==
    IF q.op = "create" THEN 1
    ELSE IF q.op \in {"get_config", "post_config"} THEN 2
    ELSE 2 + q.cat

\* the request's answer makes its step fail
StepFails(r, i) ==
    LET q == reqs[r][i] IN
    \/ /\ q.status # "OK"
       /\ ~(q.op = "get_config" /\ q.repo = "source" /\ q.status = "NOT_FOUND")
       /\ ~(q.op = "post_config" /\ q.status = "FORBIDDEN")
       /\ ~(q.op = "list" /\ q.status = "NOT_FOUND")
    \/ /\ q.op = "get_config" /\ q.repo = "dest" /\ q.status = "OK"
       /\ q.body # reqs[r][2].body
    \/ BadFetch(q)

\* C13: the requests of an invocation go through the steps Init, ConfigSync,
\* data, keys, locks, snapshots, index in this order without skipping one;
\* a request that fails its step is the last one and the invocation has
\* failed; a failed invocation ends with such a request, and an invocation
\* that is done has gone through all steps without one.
C13_Sequencing ==
    \A r \in Runs :
        reqs[r] # <<>> =>
            /\ StepOf(reqs[r][1]) = 1
            /\ \A i \in DOMAIN reqs[r] :
                  /\ i > 1 => StepOf(reqs[r][i]) \in
                        {StepOf(reqs[r][i - 1]), StepOf(reqs[r][i - 1]) + 1}
                  /\ reqs[r][i].cat > 0 =>
                        FILE_TYPES[reqs[r][i].cat] =
                            StepNames[StepOf(reqs[r][i])]
                  /\ StepFails(r, i) =>
                        (i = Len(reqs[r]) /\ run[r].pc = "failed")
            /\ run[r].pc = "failed" => StepFails(r, Len(reqs[r]))
            /\ run[r].pc = "done" =>
                  StepOf(reqs[r][Len(reqs[r])]) = Len(StepNames)

C13_Witness ==
    /\ run[1].pc = "failed"
    /\ reqs[1] # <<>>
    /\ StepOf(reqs[1][Len(reqs[1])]) = 4
    /\ \E i \in DOMAIN reqs[1] : GoodUpload(reqs[1][i])

\* C14: sync_config has returned Ok exactly when (a) the source GET was
\* answered not-found, and then no request went to the destination config,
\* (b) the POST was accepted, or (c) the POST was answered 403, the
\* destination GET succeeded and its bytes equal the source bytes.  Every
\* other answer ends the invocation with an error at that request.
C14_ConfigOutcomes ==
    \A r \in Runs :
        Len(reqs[r]) >= 2 =>
            LET g == reqs[r][2]
                n == Len(reqs[r])
                okA == g.status = "NOT_FOUND"
                okB == n >= 3 /\ g.status = "OK"
                             /\ reqs[r][3].status = "OK"
                okC == n >= 4 /\ g.status = "OK"
                             /\ reqs[r][3].status = "FORBIDDEN"
                             /\ reqs[r][4].status = "OK"
                             /\ reqs[r][4].body = g.body
                pending == \/ n = 2 /\ g.status = "OK"
                           \/ n = 3 /\ g.status = "OK"
                                    /\ reqs[r][3].status = "FORBIDDEN"
            IN
            /\ g.op = "get_config" /\ g.repo = "source"
            /\ (okA \/ okB \/ okC) <=>
                  (PastConfig(r) \/ (run[r].pc = "failed" /\ StepOf(reqs[r][n]) > 2))
            /\ okA => \A i \in DOMAIN reqs[r] :
                        ~(reqs[r][i].repo = "dest"
                          /\ reqs[r][i].op \in {"get_config", "post_config"})
            /\ pending <=> run[r].pc \in {"config_post", "config_verify"}
            /\ ~(okA \/ okB \/ okC \/ pending) =>
                  (run[r].pc = "failed" /\ StepOf(reqs[r][n]) = 2)

C14_Witness ==
    /\ Len(reqs[1]) = 2
    /\ reqs[1][2].status = "NOT_FOUND"
    /\ dstCfg # NoConfig
    /\ run[1].pc = "list_source"

\* the plans of invocation r for category c
PlansFor(r, c) == {k \in DOMAIN plans[r] : plans[r][k].cat = c}

\* the requests of invocation r that act on an object of category c
ObjReqs(r, c) ==
    {i \in DOMAIN reqs[r] :
        reqs[r][i].cat = c /\ reqs[r][i].op \in {"get", "post", "delete"}}

\* C16: every fetch goes to the source and every upload to the destination
\* for a name in the category's to_download, every delete is for a name in
\* its to_delete; a name in both snapshots with equal declared size gets no
\* fetch, upload or delete and keeps its destination object; without prune
\* no delete is sent.
C16_OnlyPlanned ==
    \A r \in Runs :
        /\ \A i \in DOMAIN reqs[r] :
              LET q == reqs[r][i] IN
              /\ q.op \in {"get", "post"} =>
                    /\ q.repo = (IF q.op = "get" THEN "source" ELSE "dest")
                    /\ \E k \in PlansFor(r, q.cat) :
                          q.name \in Range(plans[r][k].to_download)
              /\ q.op = "delete" =>
                    /\ prune /\ q.repo = "dest"
                    /\ \E k \in PlansFor(r, q.cat) :
                          q.name \in Range(plans[r][k].to_delete)
        /\ \A k \in DOMAIN plans[r] :
              LET p == plans[r][k] IN
              /\ Cardinality(PlansFor(r, p.cat)) = 1
              /\ \A n \in DOMAIN p.source_map \cap DOMAIN p.dest_map :
                    p.source_map[n] = p.dest_map[n] =>
                        /\ \A i \in ObjReqs(r, p.cat) : reqs[r][i].name # n
                        /\ n \in DOMAIN dst[p.cat]
                        /\ Len(dst[p.cat][n]) = p.dest_map[n]
                        /\ r = 1 => dst[p.cat][n] = dst0[p.cat][n]

C16_Witness ==
    /\ run[1].pc = "done"
    /\ \E k \in DOMAIN plans[1] :
          LET p == plans[1][k] IN
          /\ p.to_download = <<>>
          /\ \E n \in DOMAIN p.source_map \cap DOMAIN p.dest_map :
                /\ p.source_map[n] = p.dest_map[n]
                /\ dst[p.cat][n] = dst0[p.cat][n]
                /\ dst[p.cat][n] # src[p.cat][n]

\* C17: a delete is sent only after every name of the category's
\* to_download has been uploaded successfully; an invocation in which a
\* transfer of the category failed has sent no delete for it; a failed
\* delete is the last request of its invocation, which has failed.
C17_DeleteAfterTransfers ==
    \A r \in Runs : \A i \in DOMAIN reqs[r] :
        LET q == reqs[r][i] IN
        /\ q.op = "delete" =>
              /\ prune
              /\ \A k \in PlansFor(r, q.cat) :
                    Range(plans[r][k].to_download) =
                        {reqs[r][j].name : j \in
                            {h \in 1..(i - 1) :
                                reqs[r][h].cat = q.cat /\ GoodUpload(reqs[r][h])}}
              /\ \A j \in ObjReqs(r, q.cat) :
                    reqs[r][j].op \in {"get", "post"} => j < i
              /\ q.status # "OK" =>
                    (i = Len(reqs[r]) /\ run[r].pc = "failed"
                     /\ run[r].err = "DeleteFailed")
        /\ FailedTransfer(q) =>
              \A j \in ObjReqs(r, q.cat) : reqs[r][j].op # "delete"

C17_Witness ==
    /\ prune
    /\ run[1].pc = "failed" /\ run[1].err = "DeleteFailed"
    /\ \E i \in DOMAIN reqs[1] :
          /\ GoodUpload(reqs[1][i])
          /\ reqs[1][i].cat = reqs[1][Len(reqs[1])].cat
    /\ reqs[1][Len(reqs[1])].cat < Len(FILE_TYPES)

\* C18: every request to the source is a read (config fetch, listing, object
\* fetch), and no step changes the source's config or objects.
C18_SourceReadOnly ==
    /\ [](\A r \in Runs : \A i \in DOMAIN reqs[r] :
            reqs[r][i].repo = "source" =>
                reqs[r][i].op \in {"get_config", "list", "get"})
    /\ [][src' = src /\ srcCfg' = srcCfg]_vars

C18_Witness ==
    /\ prune
    /\ run[1].pc = "failed"
    /\ \E i \in DOMAIN reqs[1] : GoodUpload(reqs[1][i])
    /\ \E i \in DOMAIN reqs[1] :
          reqs[1][i].op = "delete" /\ reqs[1][i].status = "OK"

\* C15: with requests and answers as separate steps, an invocation never has
\* more than one request in flight, a request in flight is the one of the
\* invocation's position, a request is sent only when none is in flight,
\* every upload directly follows the accepted fetch of the same object, and
\* the answered requests never go back to an earlier category.
C15_OneInFlight ==
    /\ [](\A r \in Runs :
            /\ inflight[r] <= 1
            /\ inflight[r] = 1 => run[r].pc \in RequestPcs
            /\ \A i \in DOMAIN reqs[r] :
                  /\ reqs[r][i].op = "post" =>
                        /\ i > 1
                        /\ reqs[r][i - 1].op = "get"
                        /\ reqs[r][i - 1].status = "OK"
                        /\ reqs[r][i - 1].cat = reqs[r][i].cat
                        /\ reqs[r][i - 1].name = reqs[r][i].name
                  /\ i > 1 => StepOf(reqs[r][i - 1]) <= StepOf(reqs[r][i]))
    /\ [][\A r \in Runs : inflight'[r] > inflight[r] => inflight[r] = 0]_vars

C15_Witness ==
    /\ wire
    /\ inflight[1] = 1
    /\ run[1].pc = "upload"
    /\ \E i \in DOMAIN reqs[1] :
          GoodUpload(reqs[1][i]) /\ reqs[1][i].cat = run[1].cat

\* C19: when the scheduler starts a run while the previous one is running,
\* with prune and an unchanged source, no run sends a delete for a name the
\* source holds, a name the source holds that was at the destination stays
\* there, every destination object written since the first run hashes to
\* its name, and a destination whose objects all hashed to their names
\* before the first run keeps that property.
C19_OverlapSafe ==
    /\ \A r \in Runs : \A i \in DOMAIN reqs[r] :
          reqs[r][i].op = "delete" =>
              reqs[r][i].name \notin DOMAIN src[reqs[r][i].cat]
    /\ \A c \in Cats : \A n \in DOMAIN src[c] :
          n \in DOMAIN dst0[c] => n \in DOMAIN dst[c]
    /\ \A c \in Cats : \A n \in DOMAIN dst[c] :
          (n \notin DOMAIN dst0[c] \/ dst[c][n] # dst0[c][n]) =>
              hash_hex(dst[c][n]) = n
    /\ AllValid(dst0) => AllValid(dst)

C19_Witness ==
    /\ prune
    /\ \E i \in DOMAIN reqs[1] : \E j \in DOMAIN reqs[2] :
          /\ GoodUpload(reqs[1][i])
          /\ reqs[2][j].op = "post"
          /\ reqs[2][j].cat = reqs[1][i].cat
          /\ reqs[2][j].name = reqs[1][i].name
    /\ \E r \in Runs : \E i \in DOMAIN reqs[r] :
          reqs[r][i].op = "delete" /\ reqs[r][i].status = "OK"

\* no request is sent twice by one invocation, every fetch and upload is for
\* a name of the category's source listing and every delete for a name of
\* its destination listing
SinglePass ==
    \A r \in Runs : \A i \in DOMAIN reqs[r] :
        LET q == reqs[r][i] IN
        /\ \A j \in DOMAIN reqs[r] :
              j # i =>
                  ~ /\ reqs[r][j].op = q.op
                    /\ reqs[r][j].repo = q.repo
                    /\ reqs[r][j].cat = q.cat
                    /\ reqs[r][j].name = q.name
        /\ q.op \in {"get", "post"} =>
              \E k \in PlansFor(r, q.cat) :
                  q.name \in DOMAIN plans[r][k].source_map
        /\ q.op = "delete" =>
              \E k \in PlansFor(r, q.cat) :
                  q.name \in DOMAIN plans[r][k].dest_map

\* C20: when every request is answered, an invocation that has started
\* reaches done or failed unless a signal stops the process first, and on
\* the way it sends each request at most once: one fetch and one upload per
\* name of a category's source listing, one delete per name of its
\* destination listing.
C20_Terminates ==
    /\ []SinglePass
    /\ \A r \in Runs :
          (r \in Running) ~> (Ended(r) \/ proc \in {"shutdown", "killed"})

C20_Witness ==
    /\ run[1].pc = "done"
    /\ proc # "shutdown"
    /\ \E i \in DOMAIN reqs[1] : GoodUpload(reqs[1][i])
    /\ \E i \in DOMAIN reqs[1] :
          reqs[1][i].op = "delete" /\ reqs[1][i].status = "OK"
====
